---- MODULE Spec2Model ----
(***************************************************************************)
(* Model of aioartifactory: the retrieve pipeline of AIOArtifactory        *)
(* (discovery workers, transfer workers, asyncio queues and task groups)   *)
(* and the RemotePath value type it works on.                              *)
(*                                                                         *)
(* A URL "https://host/<s1>/<s2>/.../<sn>" is the sequence of its path     *)
(* segments <<s1, ..., sn>>; a trailing "/" is a last empty segment "".    *)
(* A relative URI "/a/b" is <<"a", "b">> and the empty string is << >>.    *)
(* An optional value (a queue item that may be Python's None) is << >> for *)
(* None and <<x>> for the value x.                                         *)
(***************************************************************************)
EXTENDS Bags, FiniteSets, Integers, Sequences, TLC

VARIABLES
    source_list,          \* retrieve(source=...), after normalisation to a list
    destination_list,     \* retrieve(destination=...), after normalisation
    maximum_connection,   \* retrieve(maximum_connection=...)
    recursive,            \* retrieve(recursive=...)
    main,                 \* position of the retrieve coroutine
    session,              \* the pooled ClientSession of the call
    source_queue,         \* asyncio.Queue of sources and None sentinels
    download_queue,       \* asyncio.Queue of file URLs and None sentinels
    retrieve_task,        \* the discovery workers of the first TaskGroup
    download_task,        \* the transfer workers of the second TaskGroup
    retrieve_group,       \* first TaskGroup: errors collected, abort done
    download_group,       \* second TaskGroup: errors collected, abort done
    result,               \* what retrieve gave back to its caller
    disk,                 \* local file system: files and directories
    listed,               \* bag of sources a listing request was issued for
    queued,               \* bag of file URLs put on the download queue
    fetched,              \* bag of file URLs a content GET was issued for
    completed,            \* bag of file URLs logged as 'Completed'
    credential,           \* what the engine was constructed with
    form,                 \* how source and destination were passed
    call                  \* a method call on a RemotePath or on the engine

vars == <<source_list, destination_list, maximum_connection, recursive, main,
          session, source_queue, download_queue, retrieve_task, download_task,
          retrieve_group, download_group, result, disk, listed, queued,
          fetched, completed, credential, form, call>>

input == <<source_list, destination_list, maximum_connection, recursive,
           credential, form>>

----------------------------------------------------------------------------
(* Bounds of the model.                                                    *)

MaxSources == 2
MaxConnection == 2
MaxDestinations == 2

----------------------------------------------------------------------------
(* Generic helpers.                                                        *)

None == << >>
Some(x) == <<x>>

Min(a, b) == IF a <= b THEN a ELSE b

Range(s) == {s[i] : i \in DOMAIN s}

SeqToBag(s) == [x \in Range(s) |-> Cardinality({i \in DOMAIN s : s[i] = x})]

Repeat(x, n) == [i \in 1..n |-> x]

IsPrefix(p, q) == Len(p) <= Len(q) /\ SubSeq(q, 1, Len(p)) = p

RECURSIVE Flatten(_)
Flatten(ss) == IF ss = << >> THEN << >> ELSE Head(ss) \o Flatten(Tail(ss))

\* The lists of at most n pairwise distinct elements of S.
ListsOf(S, n) ==
    {s \in UNION {[1..k -> S] : k \in 0..n} :
        \A i, j \in DOMAIN s : s[i] = s[j] => i = j}

----------------------------------------------------------------------------
(* The repository server the client talks to.                              *)

\* The files the server stores, in the order its listings report them.
ServerFiles ==
    << <<"art", "repo", "dir", "a.txt">>,
       <<"art", "repo", "dir", "sub", "b.txt">>,
       <<"art", "repo", "c.txt">> >>

\* The storage API answers for the item at path p (segments, no empty ones):
\* 400 on a list request for a file, 404 for a missing item, 200 for a folder.
ListStatus(p) ==
    IF p \in Range(ServerFiles) THEN 400
    ELSE IF \E f \in Range(ServerFiles) : IsPrefix(p, f) THEN 200
    ELSE 404

\* The "files" array of a deep listing of folder p: the uri of every file
\* below p, relative to p, in server order.
ListFiles(p) ==
    LET below == SelectSeq(ServerFiles, LAMBDA f : IsPrefix(p, f) /\ f # p)
    IN  [i \in DOMAIN below |-> SubSeq(below[i], Len(p) + 1, Len(below[i]))]

\* The status of a content GET on the URL u.
ContentStatus(u) == IF u \in Range(ServerFiles) THEN 200 ELSE 404

\* The body of the response to a content GET, as the sequence of its chunks.
ContentBody(u) == IF ContentStatus(u) = 200 THEN <<u>> ELSE << <<"404">> >>

----------------------------------------------------------------------------
(* RemotePath of aioartifactory.py.                                        *)

\* PurePath(urlparse(url).path).parts: the root, then the non-empty segments.
Parts(url) == <<"/">> \o SelectSeq(url, LAMBDA s : s # "")

\* RemotePath.location: parts[2:], a relative path.
location(url) == SubSeq(Parts(url), 3, Len(Parts(url)))

\* RemotePath._get_storage_api_path: netloc, path.split('/')[:2], the pair
\* api/storage, path.split('/')[2:], normalised by PurePath.
_get_storage_api_path(url) ==
    LET split == <<"">> \o url
    IN  SelectSeq(<<"host">> \o SubSeq(split, 1, 2) \o <<"api", "storage">>
                      \o SubSeq(split, 3, Len(split)),
                  LAMBDA s : s # "")

\* The item a storage API path addresses on the server.
StorageItem(api) == <<api[2]>> \o SubSeq(api, 5, Len(api))

\* RemotePath.get_file_list as the worker sees it once the response is in:
\* the URIs it yields, or the error it raises.
get_file_list(url) ==
    LET item   == StorageItem(_get_storage_api_path(url))
        status == ListStatus(item)
    IN  IF status = 400
        THEN \* str(location).partition('/'): separator + after
             [raise |-> None,
              yield |-> <<SubSeq(location(url), 2, Len(location(url)))>>]
        ELSE IF status = 200
        THEN [raise |-> None, yield |-> ListFiles(item)]
        ELSE \* the body of an error answer has no 'files' key
             [raise |-> Some("KeyError"), yield |-> << >>]

----------------------------------------------------------------------------
(* The inputs of a retrieve call.                                          *)

\* Source strings a caller may pass: a folder written with a trailing
\* separator, a file directly below the repository, a missing path.
SourceChoice ==
    { <<"art", "repo", "dir", "">>,
      <<"art", "repo", "c.txt">>,
      <<"art", "repo", "missing">> }

\* The k-th destination root, /tmp/<k>.
DestinationRoot(k) == <<"tmp", ToString(k)>>

DestinationChoice == {[i \in 1..k |-> DestinationRoot(i)] : k \in 0..MaxDestinations}

----------------------------------------------------------------------------
(* Task states.  A task is "ready" when it is about to dequeue, "cancelling"*)
(* once cancel() was called on it and CancelledError is still to be thrown *)
(* into it, and ends "done", "failed" or "cancelled".                      *)

Terminal == {"done", "failed", "cancelled"}

Live(task) == {w \in DOMAIN task : task[w].pc \notin Terminal}

NewGroup == [errors |-> << >>, aborting |-> FALSE]

\* Variant: the errors the tasks ended with are not looked at.
HasError_never(group) == FALSE

\* TaskGroup: a task of the group ended with an error.
HasError(group) == group.errors # << >>

\* Variant: the abort leaves the siblings running.
Abort_nothing(task) == task

\* TaskGroup._abort: cancel() every task that is not done.
Abort(task) ==
    [w \in DOMAIN task |->
        IF task[w].pc \in Terminal THEN task[w]
        ELSE [task[w] EXCEPT !.pc = "cancelling"]]

\* Variant: the group is left without waiting for its tasks.
GroupDone_no_wait(task, group) == TRUE

\* TaskGroup.__aexit__ goes on once every task is done and, if one failed,
\* its done callback has aborted the group.
GroupDone(task, group) ==
    /\ Live(task) = {}
    /\ HasError(group) => group.aborting

----------------------------------------------------------------------------
(* Initial state: retrieve is about to be called with a list of distinct   *)
(* sources, a list of distinct destination roots, a maximum number of      *)
(* connections and the recursive flag.                                     *)

\* No method call is in flight.
NoCall == [method |-> "none", pc |-> "none"]

\* The state of a retrieve call that has not started.
Unstarted ==
    /\ main = "start"
    /\ session = "unopened"
    /\ source_queue = << >>
    /\ download_queue = << >>
    /\ retrieve_task = << >>
    /\ download_task = << >>
    /\ retrieve_group = NewGroup
    /\ download_group = NewGroup
    /\ result = [kind |-> "pending", value |-> << >>]
    /\ disk = [file |-> << >>, directory |-> {}]
    /\ listed = EmptyBag
    /\ queued = EmptyBag
    /\ fetched = EmptyBag
    /\ completed = EmptyBag

\* source and destination both passed as lists.
ListForm == [source |-> "list", destination |-> "list"]

\* The ways to pass the arguments: a source as one string or as a list of
\* strings, a destination as one string, as one path object or as a list; a
\* scalar is one item.
FormChoice ==
    [source : {"str", "list"}, destination : {"str", "PathLike", "list"}]

\* retrieve is about to be called, for the first time, on an engine
\* constructed with one of the credentials, with the arguments passed in one
\* of the forms.
InitWith(sources, credentials, forms) ==
    /\ source_list \in ListsOf(sources, MaxSources)
    /\ destination_list \in DestinationChoice
    /\ maximum_connection \in 0..MaxConnection
    /\ recursive \in BOOLEAN
    /\ credential \in credentials
    /\ form \in forms
    /\ form.source = "str" => Len(source_list) = 1
    /\ form.destination \in {"str", "PathLike"} => Len(destination_list) = 1
    /\ Unstarted
    /\ call = NoCall

\* The engine has an API key and the arguments are lists.
InitOver(sources) == InitWith(sources, {"api_key"}, {ListForm})

Init == InitOver(SourceChoice)

----------------------------------------------------------------------------
(* retrieve and _retrieve_recursive: the coroutine of the caller.          *)

\* Variant: one worker per item, whatever the maximum.
connection_count_per_item(count, maximum) == count

\* Variant: a stage with an item to work on has at least one worker.
connection_count_at_least_one(count, maximum) ==
    IF count >= 1 /\ maximum < 1 THEN 1 ELSE Min(count, maximum)

\* 'Optimize maximum connection': the number of workers of a stage that has
\* count items to work on.
connection_count(count, maximum) == Min(count, maximum)

\* Variant: the signals are put in front of the items.
put_signal_in_front(queue, count) == Repeat(None, count) \o queue

\* Variant: one signal too many.
put_signal_one_more(queue, count) == queue \o Repeat(None, count + 1)

\* Variant: one signal too few.
put_signal_one_short(queue, count) == queue \o Repeat(None, count - 1)

\* 'Enqueue a None signal for worker(s) to exit': one put per worker, behind
\* what the queue holds.
put_signal(queue, count) == queue \o Repeat(None, count)

\* Variant: the session is left as it is.
close_never(state) == state

\* The end of 'async with ClientSession(...) as session': however its body
\* is left, ClientSession.__aexit__ closes the session.
close(state) == "closed"

\* retrieve up to its first suspension.  Without recursive the session is
\* opened and closed and nothing else happens; with recursive the body of
\* the first TaskGroup runs: the workers are created, the sources and one
\* None per worker are put on the source queue.
Retrieve ==
    /\ main = "start"
    /\ IF recursive
       THEN LET count ==
                    connection_count(Len(source_list), maximum_connection)
            IN  /\ session' = "open"
                /\ retrieve_task' =
                       [w \in 1..count |-> [pc |-> "ready", source |-> None]]
                /\ source_queue' =
                       put_signal(
                           [i \in DOMAIN source_list |-> Some(source_list[i])],
                           count)
                /\ main' = "discovery"
                /\ UNCHANGED result
       ELSE /\ session' = close(session)
            /\ main' = "returned"
            /\ result' = [kind |-> "None", value |-> << >>]
            /\ UNCHANGED <<retrieve_task, source_queue>>
    /\ UNCHANGED <<input, call, download_queue, download_task, retrieve_group,
                   download_group, disk, listed, queued, fetched, completed>>

\* The first TaskGroup is left.  If a worker failed, the ExceptionGroup
\* leaves retrieve through the session's context manager; else the body of
\* the second TaskGroup runs: the workers are created and one None per
\* worker is put on the download queue.
DiscoveryExit ==
    /\ main = "discovery"
    /\ GroupDone(retrieve_task, retrieve_group)
    /\ IF HasError(retrieve_group)
       THEN /\ main' = "raised"
            /\ session' = close(session)
            /\ result' = [kind |-> "ExceptionGroup",
                          value |-> retrieve_group.errors]
            /\ UNCHANGED <<download_task, download_queue>>
       ELSE LET count ==
                    connection_count(Len(download_queue), maximum_connection)
            IN  /\ download_task' =
                       [w \in 1..count |->
                           [pc |-> "ready", download |-> None, at |-> 0,
                            unread |-> FALSE, tell |-> 0]]
                /\ download_queue' = put_signal(download_queue, count)
                /\ main' = "transfer"
                /\ UNCHANGED <<session, result>>
    /\ UNCHANGED <<input, call, source_queue, retrieve_task, retrieve_group,
                   download_group, disk, listed, queued, fetched, completed>>

\* The second TaskGroup is left: retrieve returns (it has no return
\* statement) or the ExceptionGroup leaves it.
TransferExit ==
    /\ main = "transfer"
    /\ GroupDone(download_task, download_group)
    /\ session' = close(session)
    /\ IF HasError(download_group)
       THEN /\ main' = "raised"
            /\ result' = [kind |-> "ExceptionGroup",
                          value |-> download_group.errors]
       ELSE /\ main' = "returned"
            /\ result' = [kind |-> "None", value |-> << >>]
    /\ UNCHANGED <<input, call, source_queue, download_queue, retrieve_task,
                   download_task, retrieve_group, download_group, disk,
                   listed, queued, fetched, completed>>

----------------------------------------------------------------------------
(* _retrieve_task: a discovery worker.                                     *)

\* AIOArtifactory.__init__: the attributes the engine has after it was
\* constructed with an API key, or else with a token.
__init__(kwargs) ==
    IF kwargs = "api_key" THEN {"_api_key", "_header"}
    ELSE {"_token", "_header"}

\* The worker dequeues; on None it leaves its loop, else it builds the
\* RemotePath of the source from self._api_key, sends the listing request
\* and waits for the response.  On an engine without the attribute _api_key
\* the task ends with AttributeError and the TaskGroup records it.
RetrieveGet(w) ==
    /\ w \in DOMAIN retrieve_task
    /\ retrieve_task[w].pc = "ready"
    /\ source_queue # << >>
    /\ source_queue' = Tail(source_queue)
    /\ IF Head(source_queue) = None
       THEN /\ retrieve_task' = [retrieve_task EXCEPT ![w].pc = "done"]
            /\ UNCHANGED <<listed, retrieve_group>>
       ELSE IF "_api_key" \in __init__(credential)
       THEN /\ retrieve_task' =
                   [retrieve_task EXCEPT ![w] =
                       [pc |-> "listing", source |-> Head(source_queue)]]
            /\ listed' = listed (+) SetToBag({Head(source_queue)[1]})
            /\ UNCHANGED retrieve_group
       ELSE /\ retrieve_task' = [retrieve_task EXCEPT ![w].pc = "failed"]
            /\ retrieve_group' =
                   [retrieve_group EXCEPT !.errors = @ \o <<"AttributeError">>]
            /\ UNCHANGED listed
    /\ UNCHANGED <<input, call, main, session, download_queue, download_task,
                   download_group, result, disk, queued, fetched, completed>>

\* Variant: the yielded URIs are taken last first.
Resolve_last_first(source) ==
    LET before == SubSeq(source, 1, Len(source) - 1)
        yield  == get_file_list(source).yield
    IN  [i \in DOMAIN yield |-> before \o yield[Len(yield) + 1 - i]]

\* The URLs the worker puts on the download queue for a source: the part of
\* the source string before its last '/', followed by each yielded URI.
Resolve(source) ==
    LET before == SubSeq(source, 1, Len(source) - 1)
        yield  == get_file_list(source).yield
    IN  [i \in DOMAIN yield |-> before \o yield[i]]

\* The listing response is in and get_file_list yields: every URL is put on
\* the download queue and the worker goes back to dequeue.
RetrieveList(w) ==
    /\ w \in DOMAIN retrieve_task
    /\ retrieve_task[w].pc = "listing"
    /\ LET source == retrieve_task[w].source[1]
       IN  /\ get_file_list(source).raise = None
           /\ download_queue' =
                  download_queue \o
                      [i \in DOMAIN Resolve(source) |-> Some(Resolve(source)[i])]
           /\ queued' = queued (+) SeqToBag(Resolve(source))
    /\ retrieve_task' =
           [retrieve_task EXCEPT ![w] = [pc |-> "ready", source |-> None]]
    /\ UNCHANGED <<input, call, main, session, source_queue, download_task,
                   retrieve_group, download_group, result, disk, listed,
                   fetched, completed>>

\* The listing fails: the request does not get through (nothing catches the
\* transport error), or get_file_list raises on the response.  The task ends
\* with the error and the TaskGroup records it.
RetrieveListError(w) ==
    /\ w \in DOMAIN retrieve_task
    /\ retrieve_task[w].pc = "listing"
    /\ \E error \in {Some("ClientConnectorError"),
                     get_file_list(retrieve_task[w].source[1]).raise} :
          /\ error # None
          /\ retrieve_group' =
                 [retrieve_group EXCEPT !.errors = @ \o error]
    /\ retrieve_task' = [retrieve_task EXCEPT ![w].pc = "failed"]
    /\ UNCHANGED <<input, call, main, session, source_queue, download_queue,
                   download_task, download_group, result, disk, listed,
                   queued, fetched, completed>>

\* TaskGroup._on_task_done of the first failed task: the siblings are
\* cancelled.
RetrieveAbort ==
    /\ HasError(retrieve_group)
    /\ ~retrieve_group.aborting
    /\ retrieve_group' = [retrieve_group EXCEPT !.aborting = TRUE]
    /\ retrieve_task' = Abort(retrieve_task)
    /\ UNCHANGED <<input, call, main, session, source_queue, download_queue,
                   download_task, download_group, result, disk, listed,
                   queued, fetched, completed>>

\* CancelledError is thrown into a cancelled worker at its await.
RetrieveCancelled(w) ==
    /\ w \in DOMAIN retrieve_task
    /\ retrieve_task[w].pc = "cancelling"
    /\ retrieve_task' = [retrieve_task EXCEPT ![w].pc = "cancelled"]
    /\ UNCHANGED <<input, call, main, session, source_queue, download_queue,
                   download_task, retrieve_group, download_group, result,
                   disk, listed, queued, fetched, completed>>

----------------------------------------------------------------------------
(* _download_task: a transfer worker.                                      *)

\* The local path a download is written to below a destination root.
destination_path(destination, download) == destination \o location(download)

\* The directories mkdir(parents=True) makes sure exist for a file path.
Parents(path) == {SubSeq(path, 1, n) : n \in 1..(Len(path) - 1)}

\* The worker dequeues; on None it leaves its loop, else it sends the GET
\* for the URL and waits for the response.
DownloadGet(w) ==
    /\ w \in DOMAIN download_task
    /\ download_task[w].pc = "ready"
    /\ download_queue # << >>
    /\ download_queue' = Tail(download_queue)
    /\ IF Head(download_queue) = None
       THEN /\ download_task' = [download_task EXCEPT ![w].pc = "done"]
            /\ UNCHANGED fetched
       ELSE /\ download_task' =
                   [download_task EXCEPT ![w] =
                       [pc |-> "get", download |-> Head(download_queue),
                        at |-> 0, unread |-> FALSE, tell |-> 0]]
            /\ fetched' = fetched (+) SetToBag({Head(download_queue)[1]})
    /\ UNCHANGED <<input, call, main, session, source_queue, retrieve_task,
                   retrieve_group, download_group, result, disk, listed,
                   queued, completed>>

\* Variant: the worker leaves its loop after its first download.
Completed_and_leave(w) == [download_task EXCEPT ![w].pc = "done"]

\* One download is over: 'Completed' is logged, the worker dequeues again.
Completed(w) ==
    [download_task EXCEPT ![w] =
        [pc |-> "ready", download |-> None, at |-> 0, unread |-> FALSE,
         tell |-> 0]]

\* 'if isinstance(destination, str): destination = [destination]': what
\* retrieve hands to its workers as destination_list can be iterated unless
\* the destination was passed as one path object.
Iterable(destination) == destination # "PathLike"

\* The response (of any status) is in; its body is still unread.  The worker
\* starts the loop over destination_list and turns to the first
\* destination.  If destination_list cannot be iterated the task ends with
\* TypeError and the TaskGroup records it.
DownloadRespond(w) ==
    /\ w \in DOMAIN download_task
    /\ download_task[w].pc = "get"
    /\ IF ~Iterable(form.destination)
       THEN /\ download_task' = [download_task EXCEPT ![w].pc = "failed"]
            /\ download_group' =
                   [download_group EXCEPT !.errors = @ \o <<"TypeError">>]
            /\ UNCHANGED completed
       ELSE IF destination_list = << >>
       THEN /\ download_task' = Completed(w)
            /\ completed' =
                   completed (+) SetToBag({download_task[w].download[1]})
            /\ UNCHANGED download_group
       ELSE /\ download_task' =
                   [download_task EXCEPT ![w].pc = "open", ![w].at = 1,
                                         ![w].unread = TRUE]
            /\ UNCHANGED <<completed, download_group>>
    /\ UNCHANGED <<input, call, main, session, source_queue, download_queue,
                   retrieve_task, retrieve_group, result, disk, listed,
                   queued, fetched>>

\* Variant: the file is opened for appending.
open_ab(file, path) ==
    IF path \in DOMAIN file THEN file ELSE (path :> << >>) @@ file

\* aiofiles.open(destination_path, 'wb'): the file is created, or truncated
\* if it is there.
open_wb(file, path) == (path :> << >>) @@ file

\* For the current destination the parent directories are made and the file
\* is opened with mode 'wb', which creates or truncates it; the position of
\* the file object is the end of what the file holds then, its beginning.
DownloadOpen(w) ==
    /\ w \in DOMAIN download_task
    /\ download_task[w].pc = "open"
    /\ LET path == destination_path(destination_list[download_task[w].at],
                                    download_task[w].download[1])
       IN  /\ disk' = [file |-> open_wb(disk.file, path),
                       directory |-> disk.directory \cup Parents(path)]
           /\ download_task' =
                  [download_task EXCEPT
                      ![w].pc = "write",
                      ![w].tell = Len(open_wb(disk.file, path)[path])]
    /\ UNCHANGED <<input, call, main, session, source_queue, download_queue,
                   retrieve_task, retrieve_group, download_group, result,
                   listed, queued, fetched, completed>>

\* For the current destination mkdir raises an OSError, which can only be
\* when a parent directory is not there yet.  The error is logged and the
\* loop body goes on: aiofiles.open is called for the file, whose parent is
\* no directory, and raises an OSError that nothing catches.  The task ends
\* with it and the TaskGroup records it.
DownloadOpenError(w) ==
    /\ w \in DOMAIN download_task
    /\ download_task[w].pc = "open"
    /\ LET path == destination_path(destination_list[download_task[w].at],
                                    download_task[w].download[1])
       IN  ~(Parents(path) \subseteq disk.directory)
    /\ download_task' = [download_task EXCEPT ![w].pc = "failed"]
    /\ download_group' =
           [download_group EXCEPT !.errors = @ \o <<"OSError">>]
    /\ UNCHANGED <<input, call, main, session, source_queue, download_queue,
                   retrieve_task, retrieve_group, result, disk, listed,
                   queued, fetched, completed>>

\* file.write(chunk) for the chunks at the position of a file object: what
\* the file holds there is overwritten, what it holds behind is kept.
write(content, tell, chunks) ==
    SubSeq(content, 1, Min(tell, Len(content))) \o chunks
        \o SubSeq(content, tell + Len(chunks) + 1, Len(content))

\* The chunks still unread in the response are written at the position of
\* the worker's file object and the file is closed; then the next
\* destination, or the next download.
DownloadWrite(w) ==
    /\ w \in DOMAIN download_task
    /\ download_task[w].pc = "write"
    /\ LET download == download_task[w].download[1]
           path == destination_path(destination_list[download_task[w].at],
                                    download)
           chunks == IF download_task[w].unread
                     THEN ContentBody(download) ELSE << >>
       IN  /\ disk' = [disk EXCEPT
                          !.file = (path :> write(@[path], download_task[w].tell,
                                                  chunks)) @@ @]
           /\ IF download_task[w].at = Len(destination_list)
              THEN /\ download_task' = Completed(w)
                   /\ completed' = completed (+) SetToBag({download})
              ELSE /\ download_task' =
                          [download_task EXCEPT ![w].pc = "open",
                                                ![w].at = @ + 1,
                                                ![w].unread = FALSE]
                   /\ UNCHANGED completed
    /\ UNCHANGED <<input, call, main, session, source_queue, download_queue,
                   retrieve_task, retrieve_group, download_group, result,
                   listed, queued, fetched>>

\* The GET or the read of the body fails with a transport error, which
\* nothing catches: the task ends with it and the TaskGroup records it.
DownloadError(w) ==
    /\ w \in DOMAIN download_task
    /\ download_task[w].pc \in {"get", "write"}
    /\ download_task[w].pc = "write" => download_task[w].unread
    /\ download_task' = [download_task EXCEPT ![w].pc = "failed"]
    /\ download_group' =
           [download_group EXCEPT !.errors = @ \o <<"ClientConnectorError">>]
    /\ UNCHANGED <<input, call, main, session, source_queue, download_queue,
                   retrieve_task, retrieve_group, result, disk, listed,
                   queued, fetched, completed>>

\* TaskGroup._on_task_done of the first failed task: the siblings are
\* cancelled.
DownloadAbort ==
    /\ HasError(download_group)
    /\ ~download_group.aborting
    /\ download_group' = [download_group EXCEPT !.aborting = TRUE]
    /\ download_task' = Abort(download_task)
    /\ UNCHANGED <<input, call, main, session, source_queue, download_queue,
                   retrieve_task, retrieve_group, result, disk, listed,
                   queued, fetched, completed>>

\* CancelledError is thrown into a cancelled worker at its await.
DownloadCancelled(w) ==
    /\ w \in DOMAIN download_task
    /\ download_task[w].pc = "cancelling"
    /\ download_task' = [download_task EXCEPT ![w].pc = "cancelled"]
    /\ UNCHANGED <<input, call, main, session, source_queue, download_queue,
                   retrieve_task, retrieve_group, download_group, result,
                   disk, listed, queued, fetched, completed>>

----------------------------------------------------------------------------

Worker == 1..MaxConnection

Next ==
    \/ Retrieve
    \/ DiscoveryExit
    \/ TransferExit
    \/ \E w \in Worker : RetrieveGet(w)
    \/ \E w \in Worker : RetrieveList(w)
    \/ \E w \in Worker : RetrieveListError(w)
    \/ RetrieveAbort
    \/ \E w \in Worker : RetrieveCancelled(w)
    \/ \E w \in Worker : DownloadGet(w)
    \/ \E w \in Worker : DownloadRespond(w)
    \/ \E w \in Worker : DownloadOpen(w)
    \/ \E w \in Worker : DownloadOpenError(w)
    \/ \E w \in Worker : DownloadWrite(w)
    \/ \E w \in Worker : DownloadError(w)
    \/ DownloadAbort
    \/ \E w \in Worker : DownloadCancelled(w)

Spec == Init /\ [][Next]_vars

\* The event loop runs every task that can run, and every request is
\* answered or fails within the session timeout.
FairSpec == Spec /\ WF_vars(Next)

\* Source strings of other shapes: a file inside a folder, a folder written
\* without a trailing separator, a folder inside a folder.
DeepSourceChoice ==
    { <<"art", "repo", "dir", "a.txt">>,
      <<"art", "repo", "dir">>,
      <<"art", "repo", "dir", "sub", "">> }

DeepInit == InitOver(DeepSourceChoice)

DeepSpec == DeepInit /\ [][Next]_vars

\* Source strings that overlap: the repository as a folder, a file directly
\* in it, a folder inside it; each folder written with a trailing separator.
OverlapSourceChoice ==
    { <<"art", "repo", "">>,
      <<"art", "repo", "c.txt">>,
      <<"art", "repo", "dir", "sub", "">> }

OverlapInit == InitOver(OverlapSourceChoice)

OverlapSpec == OverlapInit /\ [][Next]_vars

\* An engine constructed with an API key or with a token, and the arguments
\* passed in any form.
EngineInit == InitWith(SourceChoice, {"api_key", "token"}, FormChoice)

EngineSpec == EngineInit /\ [][Next]_vars

\* retrieve has returned and is called again with the same arguments; the
\* local files are what the first call left, and the call keeps what it
\* found to compare.
RetrieveAgain ==
    /\ main = "returned"
    /\ call = NoCall
    /\ call' = [method |-> "retrieve", pc |-> "again", disk |-> disk]
    /\ main' = "start"
    /\ session' = "unopened"
    /\ source_queue' = << >>
    /\ download_queue' = << >>
    /\ retrieve_task' = << >>
    /\ download_task' = << >>
    /\ retrieve_group' = NewGroup
    /\ download_group' = NewGroup
    /\ result' = [kind |-> "pending", value |-> << >>]
    /\ listed' = EmptyBag
    /\ queued' = EmptyBag
    /\ fetched' = EmptyBag
    /\ completed' = EmptyBag
    /\ UNCHANGED <<input, disk>>

AgainNext == Next \/ RetrieveAgain

AgainSpec == Init /\ [][AgainNext]_vars

----------------------------------------------------------------------------
(* URL strings.  A string is the sequence of its tokens: the delimiters    *)
(* "://", "/", ";", "?", "#", "=" and the names between them.              *)

\* The position of the first token t of s at or after position from, or 0.
Find(s, t, from) ==
    IF \E i \in from..Len(s) : s[i] = t
    THEN CHOOSE i \in from..Len(s) :
             s[i] = t /\ \A j \in from..(i - 1) : s[j] # t
    ELSE 0

\* The position of the last token t of s, or 0.
RFind(s, t) ==
    IF \E i \in DOMAIN s : s[i] = t
    THEN CHOOSE i \in DOMAIN s : s[i] = t /\ \A j \in (i + 1)..Len(s) : s[j] # t
    ELSE 0

\* s.split(t, 1): what is before and what is after the token at position i
\* (the whole of s and the empty string for i = 0).
SplitAt(s, i) ==
    IF i = 0 THEN [before |-> s, after |-> << >>]
    ELSE [before |-> SubSeq(s, 1, i - 1), after |-> SubSeq(s, i + 1, Len(s))]

\* urllib.parse.urlparse of scheme://netloc/...: the fragment is cut at the
\* first '#', the query at the first '?', the parameters at the first ';'
\* of the last path segment.
urlparse(url) ==
    LET rest     == SubSeq(url, 4, Len(url))
        fragment == SplitAt(rest, Find(rest, "#", 1))
        query    == SplitAt(fragment.before, Find(fragment.before, "?", 1))
        last     == RFind(query.before, "/")
        params   == SplitAt(query.before,
                            Find(query.before, ";", IF last = 0 THEN 1 ELSE last))
    IN  [scheme |-> url[1], netloc |-> url[3], path |-> params.before,
         params |-> params.after, query |-> query.after,
         fragment |-> fragment.after]

\* urllib.parse.urlunparse: the parameters, the query and the fragment are
\* appended behind their delimiter when they are not empty.
urlunparse(parse_url) ==
    <<parse_url.scheme, "://", parse_url.netloc>>
        \o parse_url.path
        \o (IF parse_url.params # << >>
            THEN <<";">> \o parse_url.params ELSE << >>)
        \o (IF parse_url.query # << >>
            THEN <<"?">> \o parse_url.query ELSE << >>)
        \o (IF parse_url.fragment # << >>
            THEN <<"#">> \o parse_url.fragment ELSE << >>)

\* str.lstrip(SEPARATOR).
RECURSIVE lstrip(_)
lstrip(path) ==
    IF path # << >> /\ Head(path) = "/" THEN lstrip(Tail(path)) ELSE path

\* str.split(SEPARATOR): the segments between the separators, empty ones
\* included.
RECURSIVE split(_)
split(path) ==
    IF path = << >> THEN <<"">>
    ELSE IF Head(path) = "/" THEN <<"">> \o split(Tail(path))
    ELSE IF Len(path) = 1 THEN path
    ELSE <<Head(path)>> \o split(SubSeq(path, 3, Len(path)))

\* SEPARATOR.join of segments.
RECURSIVE join(_)
join(segments) ==
    IF segments = << >> THEN << >>
    ELSE IF Len(segments) = 1
    THEN (IF Head(segments) = "" THEN << >> ELSE <<Head(segments)>>)
    ELSE (IF Head(segments) = "" THEN << >> ELSE <<Head(segments)>>)
             \o <<"/">> \o join(Tail(segments))

\* PurePath(...).as_posix() of a relative path given by its parts.
as_posix(parts) == IF parts = << >> THEN <<".">> ELSE join(parts)

\* The string https://host/<s1>/.../<sn>;params?query#fragment.
UrlString(segments, params, query, fragment) ==
    urlunparse([scheme |-> "https", netloc |-> "host",
                path |-> <<"/">> \o join(segments), params |-> params,
                query |-> query, fragment |-> fragment])

\* URLs a RemotePath is built from: the repository root, a file below the
\* repository, a file in a folder, a folder with a trailing separator, each
\* with and without matrix parameters, query and fragment.
UrlChoice ==
    {UrlString(segments, params, query, fragment) :
        segments \in { <<"art", "repo">>,
                       <<"art", "repo", "c.txt">>,
                       <<"art", "repo", "dir", "a.txt">>,
                       <<"art", "repo", "dir", "">> },
        params \in {<< >>, <<"a", "=", "1">>},
        query \in {<< >>, <<"q", "=", "2">>},
        fragment \in {<< >>, <<"f">>}}

----------------------------------------------------------------------------
(* RemotePath of remotepath.py: its methods, each applied to one answer of *)
(* the storage API.                                                        *)

\* The statuses the storage API answers a request with.
StatusChoice == {200, 400, 404, 500}

\* What the transport raises when no answer arrives: ClientConnectorError is
\* an OSError, ServerDisconnectedError is not.
TransportError == {"ClientConnectorError", "ServerDisconnectedError"}

\* The outcome of session.get: an answer with a status, or an error.
ResponseChoice ==
    {[error |-> None, status |-> s] : s \in StatusChoice}
        \cup {[error |-> Some(e), status |-> 0] : e \in TransportError}

\* The exception classes an 'except OSError' clause catches.
OSError == {"ClientConnectorError", "FileNotFoundError"}

\* URLs a RemotePath is built from: a folder with and without a trailing
\* separator, a file in a folder, a file below the repository, a missing
\* path.
RemotePathChoice ==
    { <<"art", "repo", "dir", "">>,
      <<"art", "repo", "dir">>,
      <<"art", "repo", "dir", "a.txt">>,
      <<"art", "repo", "c.txt">>,
      <<"art", "repo", "missing">> }

\* RemotePath.location of remotepath.py: parts[3:], as a posix string.
remotepath_location(url) == SubSeq(Parts(url), 4, Len(Parts(url)))

\* str.rpartition(SEPARATOR) of a location: what follows its last separator
\* ('.' is the posix string of an empty location).
rpartition_after(path) == IF path = << >> THEN "." ELSE path[Len(path)]

\* The 'files' array of the listing of folder p: deep, or the files directly
\* in p.
Files(p, deep) ==
    IF deep THEN ListFiles(p)
    ELSE SelectSeq(ListFiles(p), LAMBDA f : Len(f) = 1)

\* The body of the try statement of get_file_list: what it yields and the
\* exception that leaves it.
get_file_list_try(url, deep, response) ==
    IF response.error # None
    THEN [yield |-> << >>, raise |-> response.error]
    ELSE IF response.status = 400
    THEN [yield |-> <<Some(<<rpartition_after(remotepath_location(url))>>)>>,
          raise |-> None]
    ELSE IF response.status = 404
    THEN [yield |-> << >>, raise |-> Some("FileNotFoundError")]
    ELSE IF response.status = 200
    THEN LET files == Files(Tail(Parts(url)), deep)
         IN  [yield |-> [i \in DOMAIN files |-> Some(files[i])],
              raise |-> None]
    ELSE \* the body of an error answer has no 'files' key
         [yield |-> << >>, raise |-> Some("KeyError")]

\* 'except OSError as error: logger.error(...); yield None'.
except_OSError_yield_None(outcome) ==
    IF outcome.raise # None /\ outcome.raise[1] \in OSError
    THEN [yield |-> outcome.yield \o <<None>>, raise |-> None]
    ELSE outcome

\* RemotePath.get_file_list(recursive) of remotepath.py.
remotepath_get_file_list(url, deep, response) ==
    except_OSError_yield_None(get_file_list_try(url, deep, response))

\* Variant: every status but 404 counts as existing.
exists_unless_404(response) ==
    IF response.error # None
    THEN IF response.error[1] \in OSError
         THEN [return |-> Some(FALSE), raise |-> None]
         ELSE [return |-> None, raise |-> response.error]
    ELSE [return |-> Some(response.status # 404), raise |-> None]

\* RemotePath.exists: the status is compared with 200 inside a try whose
\* 'except OSError' logs and returns False.
exists(response) ==
    IF response.error # None
    THEN IF response.error[1] \in OSError
         THEN [return |-> Some(FALSE), raise |-> None]
         ELSE [return |-> None, raise |-> response.error]
    ELSE [return |-> Some(response.status = 200), raise |-> None]

\* RemotePath.folder: False on status 400, True after the request otherwise;
\* no try statement surrounds the request.
folder(response) ==
    IF response.error # None
    THEN [return |-> None, raise |-> response.error]
    ELSE [return |-> Some(response.status # 400), raise |-> None]

\* The position a call ends in.
Ended(outcome) == IF outcome.raise = None THEN "returned" ELSE "raised"

\* A call of get_file_list runs to its end on one outcome of its request.
GetFileList ==
    /\ call.method = "get_file_list"
    /\ call.pc = "called"
    /\ \E response \in ResponseChoice :
          LET outcome ==
                  remotepath_get_file_list(call.path, call.recursive, response)
          IN  call' = [call EXCEPT !.pc = Ended(outcome),
                                   !.response = Some(response),
                                   !.yield = outcome.yield,
                                   !.raise = outcome.raise]
    /\ UNCHANGED <<input, main, session, source_queue, download_queue,
                   retrieve_task, download_task, retrieve_group,
                   download_group, result, disk, listed, queued, fetched,
                   completed>>

\* A call of exists runs to its end on one outcome of its request.
Exists ==
    /\ call.method = "exists"
    /\ call.pc = "called"
    /\ \E response \in ResponseChoice :
          LET outcome == exists(response)
          IN  call' = [call EXCEPT !.pc = Ended(outcome),
                                   !.response = Some(response),
                                   !.return = outcome.return,
                                   !.raise = outcome.raise]
    /\ UNCHANGED <<input, main, session, source_queue, download_queue,
                   retrieve_task, download_task, retrieve_group,
                   download_group, result, disk, listed, queued, fetched,
                   completed>>

\* The folder property is awaited and runs to its end on one outcome of its
\* request.
Folder ==
    /\ call.method = "folder"
    /\ call.pc = "called"
    /\ \E response \in ResponseChoice :
          LET outcome == folder(response)
          IN  call' = [call EXCEPT !.pc = Ended(outcome),
                                   !.response = Some(response),
                                   !.return = outcome.return,
                                   !.raise = outcome.raise]
    /\ UNCHANGED <<input, main, session, source_queue, download_queue,
                   retrieve_task, download_task, retrieve_group,
                   download_group, result, disk, listed, queued, fetched,
                   completed>>

\* The artifacts a property search finds on the server.
ResultsChoice ==
    { << >>,
      << <<"art", "api", "storage", "repo", "c.txt">> >>,
      << <<"art", "api", "storage", "repo", "dir", "a.txt">>,
         <<"art", "api", "storage", "repo", "c.txt">> >> }

\* The body of the try statement of search_property: a 400 answer raises
\* ValueError; an empty 'results' array yields None; else the uri of every
\* artifact is yielded.
search_property_try(results, response) ==
    IF response.error # None
    THEN [yield |-> << >>, raise |-> response.error]
    ELSE IF response.status = 400
    THEN [yield |-> << >>, raise |-> Some("ValueError")]
    ELSE IF response.status = 200
    THEN [yield |-> (IF results = << >> THEN <<None>> ELSE << >>)
                        \o [i \in DOMAIN results |-> Some(results[i])],
          raise |-> None]
    ELSE \* the body of an error answer has no 'results' key
         [yield |-> << >>, raise |-> Some("KeyError")]

\* Variant: whatever leaves the try statement is logged and None is yielded.
search_property_degrade(results, response) ==
    LET outcome == search_property_try(results, response)
    IN  IF outcome.raise # None
        THEN [yield |-> outcome.yield \o <<None>>, raise |-> None]
        ELSE outcome

\* RemotePath.search_property: the try statement under 'except OSError'.
search_property(results, response) ==
    except_OSError_yield_None(search_property_try(results, response))

\* A call of search_property runs to its end on one outcome of its request.
SearchProperty ==
    /\ call.method = "search_property"
    /\ call.pc = "called"
    /\ \E response \in ResponseChoice :
          LET outcome == search_property(call.results, response)
          IN  call' = [call EXCEPT !.pc = Ended(outcome),
                                   !.response = Some(response),
                                   !.yield = outcome.yield,
                                   !.raise = outcome.raise]
    /\ UNCHANGED <<input, main, session, source_queue, download_queue,
                   retrieve_task, download_task, retrieve_group,
                   download_group, result, disk, listed, queued, fetched,
                   completed>>

\* A call of get_file_list of the RemotePath of aioartifactory.py runs to
\* its end: the request fails in the transport, which nothing catches, or
\* the server answers it.
EngineGetFileList ==
    /\ call.method = "aioartifactory.get_file_list"
    /\ call.pc = "called"
    /\ \/ call' = [call EXCEPT !.pc = "raised",
                               !.raise = Some("ClientConnectorError")]
       \/ LET outcome == get_file_list(call.path)
              status ==
                  ListStatus(StorageItem(_get_storage_api_path(call.path)))
          IN  call' = [call EXCEPT
                          !.pc = Ended(outcome),
                          !.response =
                              Some([error |-> None, status |-> status]),
                          !.yield = outcome.yield,
                          !.raise = outcome.raise]
    /\ UNCHANGED <<input, main, session, source_queue, download_queue,
                   retrieve_task, download_task, retrieve_group,
                   download_group, result, disk, listed, queued, fetched,
                   completed>>

----------------------------------------------------------------------------
(* RemotePath of remotepath.py: the properties and methods that work on    *)
(* the parsed URL only.                                                    *)

\* PurePath(self._parse_url.path).parts.
PathParts(parse_url) == Parts(split(lstrip(parse_url.path)))

\* RemotePath.repository: parts[2].
repository(parse_url) == PathParts(parse_url)[3]

\* RemotePath.location as the string it returns.
location_as_posix(parse_url) ==
    as_posix(remotepath_location(split(lstrip(parse_url.path))))

\* Variant: the pair api/storage is put behind the repository.
remotepath_get_storage_api_path_behind(parse_url) ==
    LET path_list == split(lstrip(parse_url.path))
    IN  SelectSeq(<<parse_url.netloc>> \o SubSeq(path_list, 1, 2)
                      \o <<"api", "storage">>
                      \o SubSeq(path_list, 3, Len(path_list)),
                  LAMBDA s : s # "")

\* RemotePath._get_storage_api_path of remotepath.py: the parts, behind the
\* root '//', of the path that joins netloc, path_list[:1], api/storage and
\* path_list[1:].
remotepath_get_storage_api_path(parse_url) ==
    LET path_list == split(lstrip(parse_url.path))
    IN  SelectSeq(<<parse_url.netloc>> \o SubSeq(path_list, 1, 1)
                      \o <<"api", "storage">>
                      \o SubSeq(path_list, 2, Len(path_list)),
                  LAMBDA s : s # "")

\* parse_url_tail of _get_storage_api_url.
parse_url_tail(parse_url) ==
    (IF parse_url.params # << >> THEN <<";">> ELSE << >>)
        \o parse_url.params
        \o (IF parse_url.query # << >> THEN <<"?">> ELSE << >>)
        \o parse_url.query
        \o (IF parse_url.fragment # << >> THEN <<"#">> ELSE << >>)
        \o parse_url.fragment

\* RemotePath._get_storage_api_url of remotepath.py (posix):
\* scheme ':' storage API path, as_posix, and the tail.
remotepath_get_storage_api_url(parse_url) ==
    <<parse_url.scheme, "://">>
        \o join(remotepath_get_storage_api_path(parse_url))
        \o parse_url_tail(parse_url)

\* RemotePath._get_storage_api_url of aioartifactory.py, whose storage API
\* path splits the path without stripping its leading separator.
_get_storage_api_url(parse_url) ==
    <<parse_url.scheme, "://", parse_url.netloc, "/">>
        \o join(Tail(_get_storage_api_path(Tail(split(parse_url.path)))))
        \o parse_url_tail(parse_url)

\* The properties repository and location are read.
Location ==
    /\ call.method = "location"
    /\ call.pc = "called"
    /\ call' = [call EXCEPT
                   !.pc = "returned",
                   !.repository = Some(repository(urlparse(call.url))),
                   !.location = Some(location_as_posix(urlparse(call.url)))]
    /\ UNCHANGED <<input, main, session, source_queue, download_queue,
                   retrieve_task, download_task, retrieve_group,
                   download_group, result, disk, listed, queued, fetched,
                   completed>>

\* _get_storage_api_url is called, on the RemotePath of remotepath.py or on
\* the RemotePath of aioartifactory.py.
StorageApiUrl ==
    /\ call.method \in {"_get_storage_api_url",
                        "aioartifactory._get_storage_api_url"}
    /\ call.pc = "called"
    /\ call' = [call EXCEPT
                   !.pc = "returned",
                   !.return =
                       IF call.method = "_get_storage_api_url"
                       THEN Some(remotepath_get_storage_api_url(
                                     urlparse(call.url)))
                       ELSE Some(_get_storage_api_url(urlparse(call.url)))]
    /\ UNCHANGED <<input, main, session, source_queue, download_queue,
                   retrieve_task, download_task, retrieve_group,
                   download_group, result, disk, listed, queued, fetched,
                   completed>>

\* Dictionaries given to the parameter setter, as the lists of their items.
DictionaryChoice ==
    { << >>,
      << <<"k", "v">> >>,
      << <<"k", "v">>, <<"j", "w">> >> }

\* ";".join([f"{key}={value}" for key, value in value_dictionary.items()]).
RECURSIVE join_items(_)
join_items(items) ==
    IF items = << >> THEN << >>
    ELSE <<items[1][1], "=", items[1][2]>>
             \o (IF Len(items) = 1 THEN << >>
                 ELSE <<";">> \o join_items(Tail(items)))

\* Variant: the pairs are appended to the parameters the URL has.
parameter_append(parse_url, value_dictionary) ==
    [parse_url EXCEPT
        !.params = IF @ = << >> THEN join_items(value_dictionary)
                   ELSE @ \o <<";">> \o join_items(value_dictionary)]

\* The setter of RemotePath.parameter: _parse_url._replace(params=...).
parameter(parse_url, value_dictionary) ==
    [parse_url EXCEPT !.params = join_items(value_dictionary)]

\* The parameters are set, a first and a second time, and str() of the
\* RemotePath is taken after each.
ParameterSet ==
    /\ call.method = "parameter"
    /\ Len(call.str) < 2
    /\ LET parse_url == parameter(call.parse_url, call.value_dictionary)
       IN  call' = [call EXCEPT !.pc = "returned",
                                !.parse_url = parse_url,
                                !.str = @ \o <<urlunparse(parse_url)>>]
    /\ UNCHANGED <<input, main, session, source_queue, download_queue,
                   retrieve_task, download_task, retrieve_group,
                   download_group, result, disk, listed, queued, fetched,
                   completed>>

----------------------------------------------------------------------------
(* localpath.py: LocalPath.get_file_list, the walk of a local directory.   *)

\* The directories of the local file system.
LocalDirectory ==
    {<<"top">>, <<"top", "a">>, <<"top", "b">>, <<"top", "a", "c">>}

\* os.scandir(current_path) on a directory that can be read: its entries,
\* each a file or a directory.
scandir(current_path) ==
    CASE current_path = <<"top">> ->
            <<[name |-> "f.txt", is_file |-> TRUE],
              [name |-> "a", is_file |-> FALSE],
              [name |-> "b", is_file |-> FALSE]>>
      [] current_path = <<"top", "a">> ->
            <<[name |-> "a.txt", is_file |-> TRUE],
              [name |-> "c", is_file |-> FALSE]>>
      [] current_path = <<"top", "b">> ->
            <<[name |-> "b.txt", is_file |-> TRUE]>>
      [] current_path = <<"top", "a", "c">> ->
            <<[name |-> "c.txt", is_file |-> TRUE]>>
      [] OTHER -> << >>

\* The paths LocalPath is constructed with: directories, and a path that
\* does not exist.
LocalPathChoice == {<<"top">>, <<"top", "a">>, <<"randompath">>}

\* The errors that os.scandir and the entries of a directory raise.
ScandirError == {"PermissionError", "FileNotFoundError", "OSError"}

\* Variant: a directory is pushed whether the walk is recursive or not.
entry_list_pushing(walk, current_path, entries) ==
    LET file == SelectSeq(entries, LAMBDA entry : entry.is_file)
        directory == SelectSeq(entries, LAMBDA entry : ~entry.is_file)
    IN  [walk EXCEPT
            !.yield = @ \o [i \in 1..Len(file) |->
                                current_path \o <<file[i].name>>],
            !.stack = @ \o [i \in 1..Len(directory) |->
                                current_path \o <<directory[i].name>>]]

\* 'for entry in entry_list': a file is yielded, a directory is pushed when
\* the walk is recursive.
entry_list(walk, current_path, entries) ==
    LET file == SelectSeq(entries, LAMBDA entry : entry.is_file)
        directory == SelectSeq(entries, LAMBDA entry : ~entry.is_file)
    IN  [walk EXCEPT
            !.yield = @ \o [i \in 1..Len(file) |->
                                current_path \o <<file[i].name>>],
            !.stack = @ \o (IF walk.recursive
                            THEN [i \in 1..Len(directory) |->
                                      current_path \o <<directory[i].name>>]
                            ELSE << >>)]

except_return(walk, current_path, error) ==
    [walk EXCEPT !.stack = << >>,
                 !.log = Append(@, [level |-> IF error = "OSError"
                                              THEN "error" ELSE "warning",
                                    message |-> error,
                                    path |-> current_path])]

\* 'except PermissionError', 'except FileNotFoundError', 'except OSError':
\* each handler logs its own message and falls through to the next round of
\* the loop.
except_log(walk, current_path, error) ==
    [walk EXCEPT !.log = Append(@, [level |-> IF error = "OSError"
                                              THEN "error" ELSE "warning",
                                    message |-> error,
                                    path |-> current_path])]

\* 'while stack': the generator ends when no directory is pending.
while_stack(walk) ==
    [walk EXCEPT !.pc = IF walk.stack = << >> THEN "ended" ELSE "walk"]

\* 'current_path = stack.pop()', then os.scandir(current_path).
stack_pop(walk) ==
    [walk EXCEPT !.stack = SubSeq(@, 1, Len(@) - 1),
                 !.scandir = Append(@, walk.stack[Len(walk.stack)])]

\* The generator is consumed: the stack starts with the path.
LocalGetFileList ==
    /\ call.method = "LocalPath.get_file_list"
    /\ call.pc = "called"
    /\ call' = [call EXCEPT !.pc = "walk", !.stack = <<call.path>>]
    /\ UNCHANGED <<input, main, session, source_queue, download_queue,
                   retrieve_task, download_task, retrieve_group,
                   download_group, result, disk, listed, queued, fetched,
                   completed>>

\* One round of the loop in which the directory is read to its end.
LocalScandir ==
    /\ call.method = "LocalPath.get_file_list"
    /\ call.pc = "walk"
    /\ LET current_path == call.stack[Len(call.stack)]
       IN  /\ current_path \in LocalDirectory
           /\ call' = while_stack(entry_list(stack_pop(call), current_path,
                                             scandir(current_path)))
    /\ UNCHANGED <<input, main, session, source_queue, download_queue,
                   retrieve_task, download_task, retrieve_group,
                   download_group, result, disk, listed, queued, fetched,
                   completed>>

\* One round of the loop in which an error is raised: by os.scandir when the
\* directory does not exist or cannot be opened, or after some of the
\* entries of a directory.
LocalScandirError ==
    /\ call.method = "LocalPath.get_file_list"
    /\ call.pc = "walk"
    /\ LET current_path == call.stack[Len(call.stack)]
           entries == scandir(current_path)
       IN  \E error \in ScandirError, count \in 0..Len(entries) :
               /\ current_path \notin LocalDirectory
                      => error = "FileNotFoundError"
               /\ count < Len(entries) \/ entries = << >>
               /\ call' = while_stack(except_log(
                              entry_list(stack_pop(call), current_path,
                                         SubSeq(entries, 1, count)),
                              current_path, error))
    /\ UNCHANGED <<input, main, session, source_queue, download_queue,
                   retrieve_task, download_task, retrieve_group,
                   download_group, result, disk, listed, queued, fetched,
                   completed>>

----------------------------------------------------------------------------
(* The engine as an asynchronous context manager:                          *)
(* 'async with AIOArtifactory(...) as engine: body'.                       *)

\* AIOArtifactory.__aexit__: its body is 'await super()', and a super object
\* cannot be awaited.
__aexit__(exception) == [return |-> None, raise |-> Some("TypeError")]

\* AIOArtifactory.__aenter__ returns the engine; the body starts.
AsyncEnter ==
    /\ call.method = "async with"
    /\ call.pc = "outside"
    /\ call' = [call EXCEPT !.pc = "inside"]
    /\ UNCHANGED <<input, main, session, source_queue, download_queue,
                   retrieve_task, download_task, retrieve_group,
                   download_group, result, disk, listed, queued, fetched,
                   completed>>

\* The body of the scope (any number of retrieve calls) finishes normally or
\* an exception leaves it.
Body ==
    /\ call.method = "async with"
    /\ call.pc = "inside"
    /\ \E exception \in {None, Some("ExceptionGroup")} :
          call' = [call EXCEPT !.pc = "leaving", !.exception = exception]
    /\ UNCHANGED <<input, main, session, source_queue, download_queue,
                   retrieve_task, download_task, retrieve_group,
                   download_group, result, disk, listed, queued, fetched,
                   completed>>

\* The scope is left: __aexit__ is awaited with the exception of the body.
\* What it raises replaces that exception; if it returns (None), the
\* exception of the body goes on.
AsyncExit ==
    /\ call.method = "async with"
    /\ call.pc = "leaving"
    /\ LET outcome == __aexit__(call.exception)
           raise == IF outcome.raise # None THEN outcome.raise
                    ELSE call.exception
       IN  call' = [call EXCEPT !.pc = Ended([raise |-> raise]),
                                !.raise = raise]
    /\ UNCHANGED <<input, main, session, source_queue, download_queue,
                   retrieve_task, download_task, retrieve_group,
                   download_group, result, disk, listed, queued, fetched,
                   completed>>

----------------------------------------------------------------------------
(* The calls taken one at a time, outside of a retrieve.                   *)

CallChoice ==
    {[method |-> "get_file_list", pc |-> "called", path |-> p,
      recursive |-> r, response |-> None, yield |-> << >>, raise |-> None] :
        p \in RemotePathChoice, r \in BOOLEAN}
    \cup
    {[method |-> m, pc |-> "called", path |-> p, response |-> None,
      return |-> None, raise |-> None] :
        m \in {"exists", "folder"}, p \in RemotePathChoice}
    \cup
    {[method |-> "search_property", pc |-> "called", path |-> p,
      results |-> r, response |-> None, yield |-> << >>, raise |-> None] :
        p \in RemotePathChoice, r \in ResultsChoice}
    \cup
    {[method |-> "aioartifactory.get_file_list", pc |-> "called",
      path |-> p, response |-> None, yield |-> << >>, raise |-> None] :
        p \in RemotePathChoice}
    \cup
    {[method |-> "location", pc |-> "called", url |-> u,
      repository |-> None, location |-> None] : u \in UrlChoice}
    \cup
    {[method |-> m, pc |-> "called", url |-> u, return |-> None] :
        m \in {"_get_storage_api_url", "aioartifactory._get_storage_api_url"},
        u \in UrlChoice}
    \cup
    {[method |-> "parameter", pc |-> "called", url |-> u,
      parse_url |-> urlparse(u), value_dictionary |-> d, str |-> << >>] :
        u \in UrlChoice, d \in DictionaryChoice}
    \cup
    {[method |-> "LocalPath.get_file_list", pc |-> "called", path |-> p,
      recursive |-> r, stack |-> << >>, scandir |-> << >>, yield |-> << >>,
      log |-> << >>, raise |-> None] :
        p \in LocalPathChoice, r \in BOOLEAN}
    \cup
    {[method |-> "async with", pc |-> "outside", exception |-> None,
      raise |-> None]}

CallInit ==
    /\ source_list = << >>
    /\ destination_list = << >>
    /\ maximum_connection = MaxConnection
    /\ recursive = FALSE
    /\ credential = "api_key"
    /\ form = ListForm
    /\ Unstarted
    /\ call \in CallChoice

CallNext ==
    \/ GetFileList
    \/ Exists
    \/ Folder
    \/ SearchProperty
    \/ EngineGetFileList
    \/ Location
    \/ StorageApiUrl
    \/ ParameterSet
    \/ LocalGetFileList
    \/ LocalScandir
    \/ LocalScandirError
    \/ AsyncEnter
    \/ Body
    \/ AsyncExit

CallSpec == CallInit /\ [][CallNext]_vars

\* The steps of a local walk.
LocalWalk == LocalGetFileList \/ LocalScandir \/ LocalScandirError

\* The caller of LocalPath.get_file_list consumes the sequence to its end:
\* a walk that can take a step takes it.
FairCallSpec == CallSpec /\ WF_vars(LocalWalk)

\* The program as a whole: a retrieve call, or one method call.
ProgramInit == Init \/ CallInit

ProgramNext == Next \/ CallNext

ProgramSpec == ProgramInit /\ [][ProgramNext]_vars

----------------------------------------------------------------------------
(* Properties of the discovery and transfer stages.                        *)

\* What the sources of the call resolve to, source by source.
ExpectedQueued ==
    SeqToBag(Flatten([i \in DOMAIN source_list |-> Resolve(source_list[i])]))

DiscoveryOver == recursive /\ main \in {"transfer", "returned", "raised"}

\* C1: in the discovery stage no source is dequeued and listed more often
\* than it occurs in the source list and no URL is put on the download queue
\* more often than the listings yield it; once the stage is over with at
\* least one worker and no worker failed, every source was dequeued and
\* listed exactly once, every yielded URI was queued exactly once and no
\* source is left on the source queue.
DiscoveryPartition ==
    /\ listed \sqsubseteq SeqToBag(source_list)
    /\ queued \sqsubseteq ExpectedQueued
    /\ (DiscoveryOver /\ maximum_connection >= 1
            /\ retrieve_group.errors = << >>)
           => /\ listed = SeqToBag(source_list)
              /\ queued = ExpectedQueued
              /\ source_queue = << >>

DiscoveryPartitionWitness ==
    /\ main = "transfer"
    /\ Len(retrieve_task) = 2
    /\ \A w \in DOMAIN retrieve_task : retrieve_task[w].pc = "done"
    /\ BagCardinality(listed) = 2
    /\ BagCardinality(queued) >= 3

\* C2: in the transfer stage no URL is dequeued and fetched more often than
\* discovery queued it; when retrieve returns normally every queued URL was
\* fetched with exactly one GET and the download queue is empty.
TransferPartition ==
    /\ fetched \sqsubseteq queued
    /\ (main = "returned" /\ recursive)
           => /\ fetched = queued
              /\ download_queue = << >>

TransferPartitionWitness ==
    /\ main = "returned"
    /\ Len(download_task) = 2
    /\ BagCardinality(fetched) >= 3
    /\ download_group.errors = << >>

\* C3: under fair scheduling retrieve terminates unless a worker fails: it
\* returns, every worker of both stages having dequeued a None and left its
\* loop.
RetrieveTerminates ==
    <>(\/ retrieve_group.errors # << >>
       \/ download_group.errors # << >>
       \/ /\ main = "returned"
          /\ \A w \in DOMAIN retrieve_task : retrieve_task[w].pc = "done"
          /\ \A w \in DOMAIN download_task : download_task[w].pc = "done")

RetrieveTerminatesWitness ==
    /\ main = "returned"
    /\ Len(retrieve_task) = 2
    /\ Len(download_task) = 2
    /\ \A w \in DOMAIN retrieve_task : retrieve_task[w].pc = "done"
    /\ \A w \in DOMAIN download_task : download_task[w].pc = "done"

\* C4: a stage never has more workers than min(itemCount, maxConnections),
\* itemCount being the number of sources (discovery) or of queued URLs
\* (transfer), so neither has it more open requests; with no item no worker
\* is spawned and the stage can be left at once.
WorkerBound ==
    /\ Len(retrieve_task) <= Min(Len(source_list), maximum_connection)
    /\ Len(download_task) <= Min(BagCardinality(queued), maximum_connection)
    /\ Cardinality({w \in DOMAIN retrieve_task :
                       retrieve_task[w].pc = "listing"})
           <= Min(Len(source_list), maximum_connection)
    /\ Cardinality({w \in DOMAIN download_task :
                       download_task[w].pc \in {"get", "open", "write"}})
           <= Min(BagCardinality(queued), maximum_connection)
    /\ (main = "discovery" /\ source_list = << >>)
           => retrieve_task = << >> /\ GroupDone(retrieve_task, retrieve_group)
    /\ (main = "transfer" /\ queued = EmptyBag)
           => download_task = << >> /\ GroupDone(download_task, download_group)

WorkerBoundWitness ==
    /\ main = "discovery"
    /\ Len(source_list) > maximum_connection
    /\ maximum_connection >= 1
    /\ Len(retrieve_task) = maximum_connection
    /\ \A w \in DOMAIN retrieve_task : retrieve_task[w].pc = "listing"

\* C5: discovery and transfer run in sequence: a transfer worker exists or a
\* content GET was issued only when every discovery worker has ended, and
\* nothing is put on the download queue by discovery once a transfer worker
\* exists.
StagesInSequence ==
    /\ [](download_task # << >> \/ fetched # EmptyBag
             => Live(retrieve_task) = {} /\ main \notin {"start", "discovery"})
    /\ [][download_task # << >> => queued' = queued]_vars

StagesInSequenceWitness ==
    /\ Len(retrieve_task) = 2
    /\ \E w \in DOMAIN download_task : download_task[w].pc = "get"

\* C6: once a discovery worker failed no transfer is attempted: no transfer
\* worker is started, no content GET is issued, nothing is written, and
\* retrieve does not return normally, whatever the download queue holds.
DiscoveryFailFast ==
    retrieve_group.errors # << >>
        => /\ download_task = << >>
           /\ fetched = EmptyBag
           /\ disk.file = << >>
           /\ disk.directory = {}
           /\ main \in {"discovery", "raised"}

DiscoveryFailFastWitness ==
    /\ main = "raised"
    /\ retrieve_group.errors # << >>
    /\ \E i \in DOMAIN download_queue : download_queue[i] # None

\* C7: when a worker fails its siblings are cancelled: once the group has
\* aborted every worker is done or has CancelledError pending, nothing is
\* dequeued any more, every worker has ended when retrieve is left, and
\* retrieve is left with one ExceptionGroup that holds the errors.
FailFastGroup ==
    /\ [](/\ retrieve_group.aborting
              => \A w \in DOMAIN retrieve_task :
                     retrieve_task[w].pc \in Terminal \cup {"cancelling"}
          /\ download_group.aborting
              => \A w \in DOMAIN download_task :
                     download_task[w].pc \in Terminal \cup {"cancelling"}
          /\ main \in {"returned", "raised"}
              => Live(retrieve_task) = {} /\ Live(download_task) = {}
          /\ (retrieve_group.errors # << >> \/ download_group.errors # << >>)
              => main # "returned"
          /\ main = "raised"
              => /\ result.kind = "ExceptionGroup"
                 /\ result.value # << >>
                 /\ result.value
                        \in {retrieve_group.errors, download_group.errors})
    /\ [][/\ retrieve_group.aborting => source_queue' = source_queue
          /\ download_group.aborting => download_queue' = download_queue]_vars

FailFastGroupWitness ==
    /\ main = "raised"
    /\ download_group.errors # << >>
    /\ \E w \in DOMAIN download_task : download_task[w].pc = "cancelled"
    /\ \E i \in DOMAIN download_queue : download_queue[i] # None

----------------------------------------------------------------------------
(* Properties of what retrieve gives back and leaves on disk.              *)

\* C8: a recursive retrieve that transferred files to its destinations
\* returns a list that holds the identifier of every transferred file exactly
\* once and nothing else.
ResultList ==
    (/\ main = "returned"
     /\ recursive
     /\ destination_list # << >>
     /\ completed # EmptyBag)
        => /\ result.kind = "list"
           /\ SeqToBag(result.value) = completed

\* The path of a URL below /<service-root>/<repository>/.
BelowRepository(url) ==
    LET path == SelectSeq(url, LAMBDA s : s # "")
    IN  SubSeq(path, 3, Len(path))

\* C9: every file retrieve writes is at destinationRoot / location with
\* location the remote path below /<service-root>/<repository>/.
DestinationLayout ==
    \A path \in DOMAIN disk.file :
        \E destination \in Range(destination_list) :
            \E download \in BagToSet(fetched) :
                path = destination \o BelowRepository(download)

Missing(source) == ListStatus(StorageItem(_get_storage_api_path(source))) = 404

\* C10: a recursive retrieve with at least one worker and one destination
\* on a source the listing answers 404 for raises a not-found error and
\* creates no local file and no local directory.
NotFoundRaised ==
    (/\ main \in {"returned", "raised"}
     /\ recursive
     /\ maximum_connection >= 1
     /\ destination_list # << >>
     /\ \E i \in DOMAIN source_list : Missing(source_list[i]))
        => /\ main = "raised"
           /\ "FileNotFoundError" \in Range(result.value)
           /\ disk.file = << >>
           /\ disk.directory = {}

----------------------------------------------------------------------------
(* Properties of the methods of RemotePath (remotepath.py).                *)

\* C11: a get_file_list whose listing request is answered 404 ends with a
\* not-found error at its caller and has yielded nothing, neither a URI nor
\* the None sentinel.
ListingNotFoundReachesCaller ==
    (/\ call.method = "get_file_list"
     /\ call.pc \in {"returned", "raised"}
     /\ call.response = Some([error |-> None, status |-> 404]))
        => /\ call.pc = "raised"
           /\ call.raise = Some("FileNotFoundError")
           /\ call.yield = << >>

----------------------------------------------------------------------------
(* Properties of retrieve: destinations, the recursive flag, the resolved  *)
(* URLs, the session.                                                      *)

\* C12: when retrieve has returned, every file it transferred with success
\* is, below every one of the destination roots, a local file that holds the
\* complete response body.
EveryDestinationComplete ==
    main = "returned" =>
        \A download \in BagToSet(completed) :
            ContentStatus(download) = 200 =>
                \A i \in DOMAIN destination_list :
                    LET path == destination_path(destination_list[i], download)
                    IN  /\ path \in DOMAIN disk.file
                        /\ disk.file[path] = ContentBody(download)

\* The path of the item a source string addresses, without empty segments.
ItemOf(source) == SelectSeq(source, LAMBDA s : s # "")

\* The URLs of the files a source stands for in a shallow retrieve: the file
\* itself, or the files directly in the folder.
Shallow(source) ==
    IF ListStatus(ItemOf(source)) = 400 THEN <<ItemOf(source)>>
    ELSE [i \in DOMAIN Files(ItemOf(source), FALSE) |->
             ItemOf(source) \o Files(ItemOf(source), FALSE)[i]]

\* C13: a retrieve without recursive, on existing sources with a worker and
\* a destination, lists every source, fetches exactly the files directly in
\* each folder source and each file source, and returns the list of the
\* downloaded files.
NonRecursiveTransfers ==
    (/\ main \in {"returned", "raised"}
     /\ ~recursive
     /\ maximum_connection >= 1
     /\ destination_list # << >>
     /\ source_list # << >>
     /\ \A i \in DOMAIN source_list : ~Missing(source_list[i])
     /\ retrieve_group.errors = << >>
     /\ download_group.errors = << >>)
        => /\ main = "returned"
           /\ listed = SeqToBag(source_list)
           /\ fetched =
                  SeqToBag(Flatten([i \in DOMAIN source_list |->
                                       Shallow(source_list[i])]))
           /\ result.kind = "list"
           /\ SeqToBag(result.value) = fetched

\* C14: when every source is a single file (its listing answers 400), each
\* URL put on the download queue is one of the source URLs, put at most
\* once, and a recursive discovery that ends without error has put every
\* source URL exactly once.
FileSourceQueuedAsItself ==
    (\A i \in DOMAIN source_list : ListStatus(ItemOf(source_list[i])) = 400)
        => /\ queued \sqsubseteq SeqToBag(source_list)
           /\ (/\ main \in {"transfer", "returned", "raised"}
               /\ recursive
               /\ maximum_connection >= 1
               /\ retrieve_group.errors = << >>)
                  => queued = SeqToBag(source_list)

\* The absolute URLs of the files inside a folder source.
Inside(source) ==
    [i \in DOMAIN ListFiles(ItemOf(source)) |->
        ItemOf(source) \o ListFiles(ItemOf(source))[i]]

\* C15: when every source is a folder (its listing answers 200), written
\* with or without a trailing separator, each URL put on the download queue
\* is the URL of the folder joined with a URI of its listing, and a
\* recursive discovery that ends without error has put exactly these URLs.
FolderSourceQueuedInside ==
    (\A i \in DOMAIN source_list : ListStatus(ItemOf(source_list[i])) = 200)
        => LET inside == SeqToBag(Flatten([i \in DOMAIN source_list |->
                                              Inside(source_list[i])]))
           IN  /\ queued \sqsubseteq inside
               /\ (/\ main \in {"transfer", "returned", "raised"}
                   /\ recursive
                   /\ maximum_connection >= 1
                   /\ retrieve_group.errors = << >>)
                      => queued = inside

\* C16: whenever retrieve has returned or raised, after a normal completion
\* as after a failure of discovery or of transfer, the session the call
\* opened is closed.
SessionClosedOnExit ==
    main \in {"returned", "raised"} => session = "closed"

\* A transfer worker failed, retrieve raised, and the session is closed.
SessionClosedOnExitWitness ==
    /\ main = "raised"
    /\ download_group.errors # << >>
    /\ fetched # EmptyBag
    /\ session = "closed"

----------------------------------------------------------------------------
(* Properties of the engine as a scoped resource.                          *)

\* C17: leaving the scope of the engine raises no error of its own: after a
\* body that finished normally the scope ends without an exception, and
\* after a body that raised it ends with the exception of the body.
ScopeExitClean ==
    (/\ call.method = "async with"
     /\ call.pc \in {"returned", "raised"})
        => call.raise = call.exception

----------------------------------------------------------------------------
(* Properties of the transfer worker's error handling.                     *)

\* C18: an operating-system error of the creation of a destination's parent
\* directory does not fail the batch: no transfer worker ends with an
\* operating-system error of a destination, and retrieve does not raise one.
MkdirErrorSkipsDestination ==
    /\ "OSError" \notin Range(download_group.errors)
    /\ main = "raised" => "OSError" \notin Range(result.value)

----------------------------------------------------------------------------
(* Properties of exists and folder (remotepath.py).                        *)

\* C19: exists returns true if and only if the request is answered with
\* status 200, false for every other status, and false, raising nothing,
\* when the request fails with an operating-system error of the transport.
ExistsIffStatus200 ==
    (/\ call.method = "exists"
     /\ call.pc \in {"returned", "raised"})
        => LET response == call.response[1]
           IN  /\ response.error = None
                      => /\ call.pc = "returned"
                         /\ call.return = Some(response.status = 200)
               /\ (response.error # None /\ response.error[1] \in OSError)
                      => /\ call.pc = "returned"
                         /\ call.return = Some(FALSE)
                         /\ call.raise = None

\* exists has returned false on a request that failed with an OSError.
ExistsIffStatus200Witness ==
    /\ call.method = "exists"
    /\ call.pc = "returned"
    /\ call.response = Some([error |-> Some("ClientConnectorError"),
                             status |-> 0])
    /\ call.return = Some(FALSE)

\* C20: folder returns false when the list request is answered 400, and
\* returns true only when it is answered with another, successful status.
FolderOnlyOnSuccess ==
    (/\ call.method = "folder"
     /\ call.pc = "returned")
        => LET status == call.response[1].status
           IN  /\ status = 400 => call.return = Some(FALSE)
               /\ call.return = Some(TRUE)
                      => (status # 400 /\ status >= 200 /\ status < 300)

----------------------------------------------------------------------------
(* Properties of search_property and of the listing of a file.             *)

\* C21: a search_property whose request is answered 400 ends with the
\* ValueError at its caller and has yielded nothing, neither a URI nor the
\* None sentinel.
SearchBadRequestRaises ==
    (/\ call.method = "search_property"
     /\ call.pc \in {"returned", "raised"}
     /\ call.response = Some([error |-> None, status |-> 400]))
        => /\ call.pc = "raised"
           /\ call.raise = Some("ValueError")
           /\ call.yield = << >>

\* A search was answered 400 and has raised ValueError.
SearchBadRequestRaisesWitness ==
    /\ call.method = "search_property"
    /\ call.response = Some([error |-> None, status |-> 400])
    /\ call.pc = "raised"
    /\ call.raise = Some("ValueError")

\* C22: a get_file_list whose listing request is answered 400 yields
\* exactly one URI and ends, and the URI is the separator followed by the
\* last segment of the location; this for the RemotePath of remotepath.py
\* and for the RemotePath of aioartifactory.py.
FileListingYieldsTrailingSegment ==
    LET last == ItemOf(call.path)[Len(ItemOf(call.path))]
    IN  /\ (/\ call.method = "get_file_list"
            /\ call.pc \in {"returned", "raised"}
            /\ call.response = Some([error |-> None, status |-> 400]))
               => /\ call.pc = "returned"
                  /\ call.yield = <<Some(<<last>>)>>
        /\ (/\ call.method = "aioartifactory.get_file_list"
            /\ call.pc \in {"returned", "raised"}
            /\ call.response = Some([error |-> None, status |-> 400]))
               => /\ call.pc = "returned"
                  /\ call.yield = << <<last>> >>

----------------------------------------------------------------------------
(* Properties of the RemotePath operations on the URL.                     *)

\* C23: the root segment, the repository and the location of a RemotePath,
\* joined with separators, are the path of its URL, also for the URL of a
\* repository root and for a folder URL with a trailing separator.
RepositoryLocationRecombine ==
    (/\ call.method = "location"
     /\ call.pc = "returned")
        => <<"/", "art", "/", call.repository[1], "/">> \o call.location[1]
               = urlparse(call.url).path

\* The path of a URL without the segment pair behind its first segment.
WithoutPair(parse_url) ==
    LET segments == split(lstrip(parse_url.path))
    IN  <<"/">> \o join(<<segments[1]>> \o SubSeq(segments, 4, Len(segments)))

\* C24: for a URL whose path does not end with a separator (a file below
\* the repository or in a folder, with or without matrix parameters, query
\* and fragment) the storage API URL, parsed, has the segments api and
\* storage directly behind the service root, has the path of the original
\* URL once this pair is removed, and has the scheme, authority, matrix
\* parameters, query and fragment of the original URL.
StorageApiUrlInsertsPair ==
    (/\ call.method \in {"_get_storage_api_url",
                         "aioartifactory._get_storage_api_url"}
     /\ call.pc = "returned"
     /\ urlparse(call.url).path[Len(urlparse(call.url).path)] # "/")
        => LET original == urlparse(call.url)
               storage  == urlparse(call.return[1])
           IN  /\ SubSeq(split(lstrip(storage.path)), 2, 3)
                      = <<"api", "storage">>
               /\ split(lstrip(storage.path))[1]
                      = split(lstrip(original.path))[1]
               /\ WithoutPair(storage) = original.path
               /\ storage.scheme = original.scheme
               /\ storage.netloc = original.netloc
               /\ storage.params = original.params
               /\ storage.query = original.query
               /\ storage.fragment = original.fragment

\* The storage API URL of a file in a folder, with matrix parameters, query
\* and fragment, was computed.
StorageApiUrlInsertsPairWitness ==
    /\ call.method = "_get_storage_api_url"
    /\ call.pc = "returned"
    /\ call.url = UrlString(<<"art", "repo", "dir", "a.txt">>,
                            <<"a", "=", "1">>, <<"q", "=", "2">>, <<"f">>)
    /\ call.return =
           Some(<<"https", "://", "host", "/", "art", "/", "api", "/",
                  "storage", "/", "repo", "/", "dir", "/", "a.txt", ";",
                  "a", "=", "1", "?", "q", "=", "2", "#", "f">>)

\* C26: after the parameters of a RemotePath were set from a dictionary,
\* once or twice, its string form parses to the key=value pairs of the
\* dictionary joined with ';' as matrix parameters and to the scheme,
\* authority, path, query and fragment of the original URL, and the second
\* setting gives the string of the first.
ParameterReplaced ==
    (/\ call.method = "parameter"
     /\ call.str # << >>)
        => LET original == urlparse(call.url)
               shown    == urlparse(call.str[Len(call.str)])
           IN  /\ shown.params = join_items(call.value_dictionary)
               /\ shown.scheme = original.scheme
               /\ shown.netloc = original.netloc
               /\ shown.path = original.path
               /\ shown.query = original.query
               /\ shown.fragment = original.fragment
               /\ \A i \in DOMAIN call.str : call.str[i] = call.str[1]

\* The parameters a=1 of a URL with query and fragment were replaced twice
\* by k=v;j=w.
ParameterReplacedWitness ==
    /\ call.method = "parameter"
    /\ call.url = UrlString(<<"art", "repo", "c.txt">>, <<"a", "=", "1">>,
                            <<"q", "=", "2">>, <<"f">>)
    /\ call.value_dictionary = << <<"k", "v">>, <<"j", "w">> >>
    /\ Len(call.str) = 2
    /\ call.str[2] =
           <<"https", "://", "host", "/", "art", "/", "repo", "/", "c.txt",
             ";", "k", "=", "v", ";", "j", "=", "w", "?", "q", "=", "2",
             "#", "f">>

----------------------------------------------------------------------------
(* Properties of repeated calls, of the forms of the arguments and of the  *)
(* credential.                                                             *)

\* C25: when retrieve, called again with the same arguments after it has
\* returned, returns again, the local files and their contents are those
\* the first call left.
RetrieveIdempotent ==
    (/\ call.method = "retrieve"
     /\ main = "returned")
        => disk = call.disk

\* The second of two recursive calls has returned, having fetched the two
\* files of a folder and written them again below the destination.
RetrieveIdempotentWitness ==
    /\ call.method = "retrieve"
    /\ main = "returned"
    /\ recursive
    /\ Len(destination_list) = 1
    /\ BagCardinality(completed) >= 2
    /\ \A download \in BagToSet(completed) :
           disk.file[destination_path(destination_list[1], download)]
               = ContentBody(download)
    /\ disk = call.disk

\* C27: a retrieve called with one source and one destination passed as
\* scalars, the destination as a string or as a path object, goes as it
\* goes with the singleton lists: no worker ends with a TypeError, and when
\* the call ends without an error every fetched file is written below the
\* destination.
ScalarAsSingletonList ==
    (/\ credential = "api_key"
     /\ form.source = "str"
     /\ form.destination \in {"str", "PathLike"})
        => /\ "TypeError" \notin Range(download_group.errors)
           /\ main = "returned"
                  => \A download \in BagToSet(fetched) :
                         destination_path(destination_list[1], download)
                             \in DOMAIN disk.file

\* C28: on an engine constructed with a token and no API key, a recursive
\* retrieve with a worker and a destination lists its sources as on an
\* engine with an API key: no worker ends with an AttributeError, and once
\* discovery is over without a transport error a listing request was sent
\* for every source.
TokenRetrieves ==
    (/\ credential = "token"
     /\ form = ListForm
     /\ destination_list # << >>
     /\ recursive
     /\ maximum_connection >= 1)
        => /\ "AttributeError" \notin Range(retrieve_group.errors)
           /\ (/\ main \in {"transfer", "returned", "raised"}
               /\ "ClientConnectorError" \notin Range(retrieve_group.errors))
                  => listed = SeqToBag(source_list)


\* C29: LocalPath.get_file_list on a path that does not exist raises
\* FileNotFoundError to the caller that consumes the sequence.
LocalMissingRootRaises ==
    (/\ call.method = "LocalPath.get_file_list"
     /\ call.path \notin LocalDirectory
     /\ call.pc = "ended")
        => call.raise = Some("FileNotFoundError")

Exited(task) == {w \in DOMAIN task : task[w].pc = "done"}

\* The None signals a queue holds.
Signals(queue) == {i \in DOMAIN queue : queue[i] = None}

\* Whatever the outcome of a stage: a worker has taken a None only when no
\* item is left on the queue, and the signals still on the queue and the
\* workers that took one add up to the workers created.
SignalsBehindItems(task, queue) ==
    /\ Exited(task) # {} => Signals(queue) = DOMAIN queue
    /\ Cardinality(Exited(task)) + Cardinality(Signals(queue)) = Len(task)

\* A stage that ended without an error: every worker took its None, and,
\* under the given condition, nothing is left on the queue.
StageClean(task, queue, condition) ==
    /\ Exited(task) = DOMAIN task
    /\ condition => queue = << >>

DiscoveryOverNormally ==
    /\ recursive
    /\ main \in {"transfer", "returned", "raised"}
    /\ retrieve_group.errors = << >>

TransferOverNormally == recursive /\ main = "returned"

\* C31 as stated: in both stages no worker takes a None while an item is on
\* the queue or still to be put, as many None are put as workers are
\* created, each worker takes exactly one, and a stage that completes
\* normally leaves its queue empty.
SentinelDiscipline ==
    /\ SignalsBehindItems(retrieve_task, source_queue)
    /\ SignalsBehindItems(download_task, download_queue)
    /\ Exited(download_task) # {} => Live(retrieve_task) = {}
    /\ DiscoveryOverNormally => StageClean(retrieve_task, source_queue, TRUE)
    /\ TransferOverNormally => StageClean(download_task, download_queue, TRUE)

\* C31, amended: the same, where a stage that completes normally leaves its
\* queue empty if maximum_connection is at least 1; with no worker the items
\* stay on the queue.
SentinelDisciplineOfWorkers ==
    /\ SignalsBehindItems(retrieve_task, source_queue)
    /\ SignalsBehindItems(download_task, download_queue)
    /\ Exited(download_task) # {} => Live(retrieve_task) = {}
    /\ DiscoveryOverNormally =>
           StageClean(retrieve_task, source_queue, maximum_connection >= 1)
    /\ TransferOverNormally =>
           StageClean(download_task, download_queue, maximum_connection >= 1)

SentinelDisciplineOfWorkersWitness ==
    /\ TransferOverNormally
    /\ Len(retrieve_task) = 2
    /\ Len(download_task) = 2
    /\ Exited(retrieve_task) = {1, 2}
    /\ Exited(download_task) = {1, 2}
    /\ BagCardinality(fetched) >= 2
    /\ source_queue = << >>
    /\ download_queue = << >>


\* C32: a listing request that fails with a transport error of the OSError
\* family is degraded by the resolver and dropped by the discovery stage: it
\* fails no discovery worker and does not reach the caller of retrieve, and
\* every URL on the download queue and every content GET comes from an item
\* the listing of a source yielded.
TransportErrorFilteredOut ==
    /\ "ClientConnectorError" \notin Range(retrieve_group.errors)
    /\ "ClientConnectorError" \notin Range(result.value)
    /\ \A download \in BagToSet(queued) \cup BagToSet(fetched) :
           \E i \in DOMAIN source_list :
               download \in Range(Resolve(source_list[i]))

\* C33: a transport error of the OSError family during the folder test is
\* not propagated: the test returns False, as exists does.
FolderTransportErrorDegrades ==
    (/\ call.method = "folder"
     /\ call.pc # "called"
     /\ call.response[1].error # None
     /\ call.response[1].error[1] \in OSError)
        => /\ call.raise = None
           /\ call.return = Some(FALSE)


\* The sources of the call whose listing is over: a request was sent for
\* them and no worker holds them any more.
Resolved ==
    {i \in DOMAIN source_list :
        /\ source_list[i] \in BagToSet(listed)
        /\ \A w \in DOMAIN retrieve_task :
               retrieve_task[w].source # Some(source_list[i])}

\* The item of the server a source string addresses.
ServerItem(url) == SelectSeq(url, LAMBDA s : s # "")

\* C34: on a 200 answer both resolvers yield the uri of every entry of the
\* 'files' array, in the order of the array, each once and nothing else; and
\* while discovery runs, the URLs on the download queue that come from one
\* resolved source are those of its array, in the order of the array.
ListingInOrder ==
    /\ (/\ call.method = "get_file_list"
        /\ call.pc # "called"
        /\ call.response[1].error = None
        /\ call.response[1].status = 200)
           => LET files == Files(Tail(Parts(call.path)), call.recursive)
              IN  /\ call.raise = None
                  /\ call.yield = [i \in DOMAIN files |-> Some(files[i])]
    /\ (/\ call.method = "aioartifactory.get_file_list"
        /\ call.pc # "called"
        /\ call.response # None
        /\ call.response[1].status = 200)
           => /\ call.raise = None
              /\ call.yield = ListFiles(ServerItem(call.path))
    /\ main = "discovery" =>
           \A i \in Resolved :
               LET source == source_list[i]
                   files == ListFiles(ServerItem(source))
                   before == SubSeq(source, 1, Len(source) - 1)
                   expected ==
                       [k \in DOMAIN files |-> Some(before \o files[k])]
               IN  ListStatus(ServerItem(source)) = 200
                       => SelectSeq(download_queue,
                                    LAMBDA item : item \in Range(expected))
                              = expected

ListingInOrderWitness ==
    /\ main = "discovery"
    /\ Len(source_list) = 2
    /\ Resolved = {1, 2}
    /\ download_queue \in
           {<<Some(<<"art", "repo", "c.txt">>),
              Some(<<"art", "repo", "dir", "a.txt">>),
              Some(<<"art", "repo", "dir", "sub", "b.txt">>)>>,
            <<Some(<<"art", "repo", "dir", "a.txt">>),
              Some(<<"art", "repo", "dir", "sub", "b.txt">>),
              Some(<<"art", "repo", "c.txt">>)>>}


\* C35: a search_property whose request is answered 200 ends normally and
\* has yielded the uri of every result, in the order of the response, and
\* nothing else: nothing at all when there is no result.
SearchYieldsResults ==
    (/\ call.method = "search_property"
     /\ call.pc \in {"returned", "raised"}
     /\ call.response = Some([error |-> None, status |-> 200]))
        => /\ call.pc = "returned"
           /\ call.yield = [i \in DOMAIN call.results |-> Some(call.results[i])]


\* The files directly in a local directory.
FilesIn(directory) ==
    {directory \o <<scandir(directory)[i].name>> :
        i \in {k \in DOMAIN scandir(directory) :
                   scandir(directory)[k].is_file}}

\* The files a walk from root is to yield.
FilesUnder(root, deep) ==
    IF deep
    THEN UNION {FilesIn(directory) :
                    directory \in {d \in LocalDirectory : IsPrefix(root, d)}}
    ELSE FilesIn(root)

\* What holds at every moment of a local walk: no directory is visited
\* twice, no directory is yielded, and a walk that has ended without a
\* failing directory has yielded each file it is to yield exactly once.
LocalWalkExact ==
    call.method = "LocalPath.get_file_list" =>
        /\ \A i, j \in DOMAIN call.scandir :
               call.scandir[i] = call.scandir[j] => i = j
        /\ Range(call.yield) \cap LocalDirectory = {}
        /\ (call.pc = "ended" /\ call.log = << >>) =>
               /\ call.raise = None
               /\ Range(call.yield) = FilesUnder(call.path, call.recursive)
               /\ Len(call.yield) =
                      Cardinality(FilesUnder(call.path, call.recursive))

\* C36: on a finite tree LocalPath.get_file_list terminates, and with no
\* failing directory it yields every file exactly once, every file below the
\* root when recursive and the files directly in the root when not; no
\* directory is yielded or visited twice.
LocalWalkTerminatesExact ==
    /\ []LocalWalkExact
    /\ (call.method = "LocalPath.get_file_list" /\ call.pc = "called")
           ~> (call.pc = "ended")

LocalWalkTerminatesExactWitness ==
    /\ call.method = "LocalPath.get_file_list"
    /\ call.pc = "ended"
    /\ call.recursive
    /\ call.path = <<"top">>
    /\ call.log = << >>
    /\ Len(call.scandir) = 4
    /\ Len(call.yield) = 4


\* C37: a transfer worker opens and writes a destination file only for a
\* content GET that was answered 200, and no file on disk holds the body of
\* an error answer.
WritesOnlyContentOfStatus200 ==
    /\ \A w \in DOMAIN download_task :
           download_task[w].pc \in {"open", "write"}
               => ContentStatus(download_task[w].download[1]) = 200
    /\ \A path \in DOMAIN disk.file :
           \A download \in BagToSet(fetched) :
               (/\ ContentStatus(download) # 200
                /\ disk.file[path] # << >>)
                   => disk.file[path] # ContentBody(download)


\* C38: with pairwise distinct sources and pairwise distinct destination
\* roots, no two transfer workers have the same local path open for writing
\* at the same moment, and no URL is on the download queue twice.
NoSharedDestinationPath ==
    /\ \A v, w \in DOMAIN download_task :
           (/\ v # w
            /\ download_task[v].pc = "write"
            /\ download_task[w].pc = "write")
               => destination_path(destination_list[download_task[v].at],
                                   download_task[v].download[1])
                      # destination_path(destination_list[download_task[w].at],
                                         download_task[w].download[1])
    /\ \A i, j \in DOMAIN download_queue :
           (i # j /\ download_queue[i] # None)
               => download_queue[i] # download_queue[j]


\* C39: a retrieve of one or more sources with maximum_connection not above
\* 0 has no worker in either stage, sends no listing request and no content
\* GET, writes no file and does not raise; when recursive, the sources stay
\* on the source queue as they were put.
NoConnectionNoWork ==
    (maximum_connection <= 0 /\ Len(source_list) >= 1)
        => /\ retrieve_task = << >>
           /\ download_task = << >>
           /\ listed = EmptyBag
           /\ fetched = EmptyBag
           /\ disk.file = << >>
           /\ disk.directory = {}
           /\ main # "raised"
           /\ (recursive /\ main # "start")
                  => source_queue =
                         [i \in DOMAIN source_list |-> Some(source_list[i])]

\* A recursive retrieve of two sources without a connection has returned.
NoConnectionNoWorkWitness ==
    /\ maximum_connection = 0
    /\ recursive
    /\ Len(source_list) = 2
    /\ main = "returned"
    /\ result.kind = "None"
    /\ Len(source_queue) = 2

====
